---- MODULE Spec2Model ----
(***************************************************************************)
(* Rule-based explainability engine for fake-review detection.             *)
(*                                                                         *)
(*   XAI_engine/config.py            THRESHOLDS                            *)
(*   XAI_engine/feature_extractors.py the extractors                       *)
(*   XAI_engine/reason_generator.py  generate_explanation                  *)
(*   XAI_engine/xai_engine.py        FakeReviewXAI                         *)
(*   Integration/hybrid_analyzer.py  HybridAnalyzer                        *)
(*   Integration/api_interface.py    ReviewAnalyzer                        *)
(*                                                                         *)
(* Ratios and the sentiment score are floats in the source; here they are  *)
(* fixed-point integers in hundredths (0.85 is 85, 2.5 is 250), which      *)
(* keeps every comparison of the scorer exact.                             *)
(*                                                                         *)
(* Specifications:                                                         *)
(*   SpecScore  generate_explanation as a pure function of a feature dict  *)
(*              and a thresholds dict, both drawn from bounded sets;       *)
(*   Spec       engine instances, their thresholds dicts and the calls     *)
(*              made on them;                                              *)
(*   SpecRepeat engine instances whose caller keeps a result, calls again  *)
(*              later and formats the kept result;                         *)
(*   SpecApi    the hybrid analyzer and the backend interface built on an  *)
(*              engine;                                                    *)
(*   SpecText   the extractors and the engine on texts given token by      *)
(*              token.                                                     *)
(***************************************************************************)
EXTENDS Integers, Sequences, FiniteSets, TLC

VARIABLES
    features,          \* SpecScore: the features argument
    thresholds,        \* SpecScore: the thresholds argument
    explanation_data,  \* SpecScore: what generate_explanation returned or raised
                       \* on the current arguments; NotCalled before the call
    heap,              \* Spec: the dict objects; heap[ModuleRef] is config.THRESHOLDS
    engines,           \* Spec: engines[i] is the reference held in self.thresholds
    ret,               \* Spec: outcome of the most recent call
    prev               \* SpecRepeat: an earlier result the caller has kept

vars == <<features, thresholds, explanation_data, heap, engines, ret, prev>>
scoreVars == <<features, thresholds, explanation_data>>
engineVars == <<heap, engines, ret>>

(***************************************************************************)
(* Bounds                                                                  *)
(***************************************************************************)
\* at most this many keys of one thresholds dict differ from the defaults
MaxChanged == 2
\* at most this many engine instances are constructed
MaxEngines == 2

(***************************************************************************)
(* config.py                                                               *)
(***************************************************************************)
\* the defaults with a WORD_COUNT_MIN of 5 instead of 15
THRESHOLDS_WORD_COUNT_MIN_5 ==
    [ SENTIMENT_EXTREME    |-> 85,
      WORD_COUNT_MIN       |-> 5,
      WORD_COUNT_MAX       |-> 200,
      ADJ_NOUN_RATIO       |-> 250,
      FIRST_PERSON_RATIO   |-> 15,
      SPAM_KEYWORD_MIN     |-> 3,
      CAPS_RATIO_MAX       |-> 20,
      EXCESSIVE_PUNCT_MIN  |-> 3,
      UNIQUENESS_RATIO_MIN |-> 60 ]

THRESHOLDS ==
    [ SENTIMENT_EXTREME    |-> 85,
      WORD_COUNT_MIN       |-> 15,
      WORD_COUNT_MAX       |-> 200,
      ADJ_NOUN_RATIO       |-> 250,
      FIRST_PERSON_RATIO   |-> 15,
      SPAM_KEYWORD_MIN     |-> 3,
      CAPS_RATIO_MAX       |-> 20,
      EXCESSIVE_PUNCT_MIN  |-> 3,
      UNIQUENESS_RATIO_MIN |-> 60 ]

ThresholdKeys == DOMAIN THRESHOLDS

\* thresholds that flag when the feature is above them / below them
UpperKeys == ThresholdKeys \ {"WORD_COUNT_MIN", "UNIQUENESS_RATIO_MIN"}
LowerKeys == {"WORD_COUNT_MIN", "UNIQUENESS_RATIO_MIN"}

\* the values an owner writes to a key: the default and a stricter one
\* (Test_Engine.py sets SENTIMENT_EXTREME to 0.50 and WORD_COUNT_MIN to 100)
StrictValue ==
    [ SENTIMENT_EXTREME    |-> 50,
      WORD_COUNT_MIN       |-> 100,
      WORD_COUNT_MAX       |-> 60,
      ADJ_NOUN_RATIO       |-> 50,
      FIRST_PERSON_RATIO   |-> 5,
      SPAM_KEYWORD_MIN     |-> 1,
      CAPS_RATIO_MAX       |-> 5,
      EXCESSIVE_PUNCT_MIN  |-> 1,
      UNIQUENESS_RATIO_MIN |-> 90 ]

WriteValues(k) == {THRESHOLDS[k], StrictValue[k]}

\* keys on which a thresholds dict differs from the defaults (absent counts)
Changed(T) == {k \in ThresholdKeys : k \notin DOMAIN T \/ T[k] # THRESHOLDS[k]}

(***************************************************************************)
(* Feature dicts: the keys FakeReviewXAI.extract_all_features produces,    *)
(* with values on both sides of the default and the strict thresholds.     *)
(***************************************************************************)
SentimentValues == {-90, 60, 90}
WordCountValues == {5, 60, 250}
\* adjective and noun counts; the ratio is adjectives / max(nouns, 1)
AdjNounValues == {[adjectives |-> 1, nouns |-> 1], [adjectives |-> 3, nouns |-> 0]}
\* first-person count and ratio
FirstPersonValues == {[count |-> 1, ratio |-> 10], [count |-> 2, ratio |-> 20]}
SpamCountValues == {1, 3}
CapsRatioValues == {10, 50}
PunctCountValues == {1, 3}
UniquenessValues == {50, 80}

Max(a, b) == IF a >= b THEN a ELSE b
Min(a, b) == IF a <= b THEN a ELSE b
abs(x) == IF x < 0 THEN -x ELSE x

adj_noun_ratio(an) == (an.adjectives * 100) \div Max(an.nouns, 1)

FeatureSets ==
    { [ sentiment             |-> s,
        word_count            |-> w,
        adj_noun_ratio        |-> adj_noun_ratio(an),
        adjective_count       |-> an.adjectives,
        noun_count            |-> an.nouns,
        first_person_ratio    |-> fp.ratio,
        first_person_count    |-> fp.count,
        spam_keyword_count    |-> sp,
        caps_ratio            |-> c,
        excessive_punct_count |-> p,
        uniqueness_ratio      |-> u ] :
        s \in SentimentValues, w \in WordCountValues, an \in AdjNounValues,
        fp \in FirstPersonValues, sp \in SpamCountValues, c \in CapsRatioValues,
        p \in PunctCountValues, u \in UniquenessValues }

(***************************************************************************)
(* reason_generator.py: rendering of the numbers inside the messages.      *)
(* A message is a sequence of string pieces.                               *)
(***************************************************************************)
TwoDigits(n) == IF n < 10 THEN <<"0", ToString(n)>> ELSE <<ToString(n)>>

\* f"{x:.2f}" of x hundredths
fmt_2f(x) ==
    (IF x < 0 THEN <<"-">> ELSE <<>>) \o <<ToString(abs(x) \div 100), ".">>
        \o TwoDigits(abs(x) % 100)

\* f"{x:.1f}" of x hundredths (the values used have no second decimal)
fmt_1f(x) == <<ToString(x \div 100), ".", ToString((x % 100) \div 10)>>

\* f"{x:.1%}" of x hundredths
fmt_1pct(x) == <<ToString(x), ".0%">>

(***************************************************************************)
(* reason_generator.py: generate_explanation                               *)
(***************************************************************************)
WEIGHT_SENTIMENT == 25
WEIGHT_SHORT == 15
WEIGHT_LONG == 10
WEIGHT_ADJ_NOUN == 25
WEIGHT_FIRST_PERSON == 20
WEIGHT_SPAM == 15
WEIGHT_CAPS == 10
WEIGHT_PUNCT == 10
WEIGHT_REDUNDANCY == 15

NoExc == "none"

\* the locals of generate_explanation; exc records a KeyError that ended it
Locals0 == [exc |-> NoExc, key |-> "", reasons |-> <<>>, confidence_score |-> 0]

KeyError(acc, k) == [acc EXCEPT !.exc = "KeyError", !.key = k]

AddReason(acc, reason, weight) ==
    [acc EXCEPT !.reasons = Append(@, reason), !.confidence_score = @ + weight]

Reason(f, m, d) == [feature |-> f, message |-> m, detail |-> d]

sentiment_check(acc, f, T) ==
    IF acc.exc # NoExc THEN acc
    ELSE IF "SENTIMENT_EXTREME" \notin DOMAIN T THEN KeyError(acc, "SENTIMENT_EXTREME")
    ELSE IF abs(f.sentiment) > T["SENTIMENT_EXTREME"]
         THEN AddReason(acc,
                IF f.sentiment > 0
                THEN Reason("Sentiment",
                        <<"Extremely positive sentiment (score: ">>
                            \o fmt_2f(f.sentiment) \o <<"/1.0)">>,
                        <<"Genuine reviews typically show more balanced emotions">>)
                ELSE Reason("Sentiment",
                        <<" ", "Extremely negative sentiment (score: ">>
                            \o fmt_2f(f.sentiment) \o <<"/1.0)">>,
                        <<"Genuine reviews typically show more balanced emotions">>),
                WEIGHT_SENTIMENT)
         ELSE acc

\* word_count_check with the short comparison the wrong way round
word_count_check_inverted(acc, f, T) ==
    IF acc.exc # NoExc THEN acc
    ELSE IF "WORD_COUNT_MIN" \notin DOMAIN T THEN KeyError(acc, "WORD_COUNT_MIN")
    ELSE IF f.word_count > T["WORD_COUNT_MIN"]
         THEN AddReason(acc,
                Reason("Length",
                    <<" ", "Suspiciously short review (", ToString(f.word_count), " words)">>,
                    <<"Genuine reviews typically provide more detail">>),
                WEIGHT_SHORT)
    ELSE IF "WORD_COUNT_MAX" \notin DOMAIN T THEN KeyError(acc, "WORD_COUNT_MAX")
    ELSE IF f.word_count >= T["WORD_COUNT_MAX"]
         THEN AddReason(acc,
                Reason("Length",
                    <<" ", "Unusually long review (", ToString(f.word_count), " words)">>,
                    <<"May contain padding or excessive fluff">>),
                WEIGHT_LONG)
         ELSE acc

\* word_count_check with the long comparison in an `if` of its own
word_count_check_both(acc, f, T) ==
    IF acc.exc # NoExc THEN acc
    ELSE IF "WORD_COUNT_MIN" \notin DOMAIN T THEN KeyError(acc, "WORD_COUNT_MIN")
    ELSE IF "WORD_COUNT_MAX" \notin DOMAIN T THEN KeyError(acc, "WORD_COUNT_MAX")
    ELSE LET short == IF f.word_count < T["WORD_COUNT_MIN"]
                      THEN AddReason(acc,
                            Reason("Length",
                                <<" ", "Suspiciously short review (",
                                  ToString(f.word_count), " words)">>,
                                <<"Genuine reviews typically provide more detail">>),
                            WEIGHT_SHORT)
                      ELSE acc
         IN  IF f.word_count >= T["WORD_COUNT_MAX"]
             THEN AddReason(short,
                    Reason("Length",
                        <<" ", "Unusually long review (", ToString(f.word_count), " words)">>,
                        <<"May contain padding or excessive fluff">>),
                    WEIGHT_LONG)
             ELSE short

word_count_check(acc, f, T) ==
    IF acc.exc # NoExc THEN acc
    ELSE IF "WORD_COUNT_MIN" \notin DOMAIN T THEN KeyError(acc, "WORD_COUNT_MIN")
    ELSE IF f.word_count < T["WORD_COUNT_MIN"]
         THEN AddReason(acc,
                Reason("Length",
                    <<" ", "Suspiciously short review (", ToString(f.word_count), " words)">>,
                    <<"Genuine reviews typically provide more detail">>),
                WEIGHT_SHORT)
    ELSE IF "WORD_COUNT_MAX" \notin DOMAIN T THEN KeyError(acc, "WORD_COUNT_MAX")
    ELSE IF f.word_count >= T["WORD_COUNT_MAX"]
         THEN AddReason(acc,
                Reason("Length",
                    <<" ", "Unusually long review (", ToString(f.word_count), " words)">>,
                    <<"May contain padding or excessive fluff">>),
                WEIGHT_LONG)
         ELSE acc

adj_noun_check(acc, f, T) ==
    IF acc.exc # NoExc THEN acc
    ELSE IF "ADJ_NOUN_RATIO" \notin DOMAIN T THEN KeyError(acc, "ADJ_NOUN_RATIO")
    ELSE IF f.adj_noun_ratio > T["ADJ_NOUN_RATIO"]
         THEN AddReason(acc,
                Reason("Specificity",
                    <<" ", "Excessive descriptive language (adj/noun ratio: ">>
                        \o fmt_1f(f.adj_noun_ratio) \o <<"x)">>,
                    <<"Uses ", ToString(f.adjective_count), " adjectives but only ",
                      ToString(f.noun_count), " nouns - lacks specific details">>),
                WEIGHT_ADJ_NOUN)
         ELSE acc

first_person_check(acc, f, T) ==
    IF acc.exc # NoExc THEN acc
    ELSE IF "FIRST_PERSON_RATIO" \notin DOMAIN T THEN KeyError(acc, "FIRST_PERSON_RATIO")
    ELSE IF f.first_person_ratio > T["FIRST_PERSON_RATIO"]
         THEN AddReason(acc,
                Reason("Self-Reference",
                    <<" ", "Excessive self-referencing (">>
                        \o fmt_1pct(f.first_person_ratio) \o <<" of words)">>,
                    <<"Uses first-person pronouns ", ToString(f.first_person_count),
                      " times - appears overly personal">>),
                WEIGHT_FIRST_PERSON)
         ELSE acc

spam_check(acc, f, T) ==
    IF acc.exc # NoExc THEN acc
    ELSE IF "SPAM_KEYWORD_MIN" \notin DOMAIN T THEN KeyError(acc, "SPAM_KEYWORD_MIN")
    ELSE IF f.spam_keyword_count >= T["SPAM_KEYWORD_MIN"]
         THEN AddReason(acc,
                Reason("Spam Language",
                    <<" ", "Contains ", ToString(f.spam_keyword_count),
                      " spam/promotional keywords">>,
                    <<"High use of marketing language">>),
                WEIGHT_SPAM)
         ELSE acc

caps_check(acc, f, T) ==
    IF acc.exc # NoExc THEN acc
    ELSE IF "CAPS_RATIO_MAX" \notin DOMAIN T THEN KeyError(acc, "CAPS_RATIO_MAX")
    ELSE IF f.caps_ratio > T["CAPS_RATIO_MAX"]
         THEN AddReason(acc,
                Reason("Capitalization",
                    <<" ", "Excessive capitalization (">>
                        \o fmt_1pct(f.caps_ratio) \o <<" of words)">>,
                    <<"Indicates emotional exaggeration">>),
                WEIGHT_CAPS)
         ELSE acc

punct_check(acc, f, T) ==
    IF acc.exc # NoExc THEN acc
    ELSE IF "EXCESSIVE_PUNCT_MIN" \notin DOMAIN T THEN KeyError(acc, "EXCESSIVE_PUNCT_MIN")
    ELSE IF f.excessive_punct_count >= T["EXCESSIVE_PUNCT_MIN"]
         THEN AddReason(acc,
                Reason("Punctuation",
                    <<" ", "Excessive punctuation patterns (",
                      ToString(f.excessive_punct_count), " instances)">>,
                    <<"Indicates emotional manipulation">>),
                WEIGHT_PUNCT)
         ELSE acc

redundancy_check(acc, f, T) ==
    IF acc.exc # NoExc THEN acc
    ELSE IF "UNIQUENESS_RATIO_MIN" \notin DOMAIN T THEN KeyError(acc, "UNIQUENESS_RATIO_MIN")
    ELSE IF f.uniqueness_ratio < T["UNIQUENESS_RATIO_MIN"]
         THEN AddReason(acc,
                Reason("Redundancy",
                    <<" ", "High text redundancy (">>
                        \o fmt_1pct(f.uniqueness_ratio) \o <<" unique words)">>,
                    <<"Repetitive language without substance">>),
                WEIGHT_REDUNDANCY)
         ELSE acc

\* run_checks with the Tier 2 checks evaluated before the Tier 1 checks
run_checks_tier2_first(f, T) ==
    first_person_check(
     adj_noun_check(
      word_count_check(
       sentiment_check(
        redundancy_check(
         punct_check(
          caps_check(
           spam_check(Locals0, f, T), f, T), f, T), f, T), f, T), f, T), f, T), f, T)

\* the eight checks in source order
run_checks(f, T) ==
    redundancy_check(
     punct_check(
      caps_check(
       spam_check(
        first_person_check(
         adj_noun_check(
          word_count_check(
           sentiment_check(Locals0, f, T), f, T), f, T), f, T), f, T), f, T), f, T), f, T)

OverallReason ==
    Reason("Overall",
        <<"No significant suspicious patterns detected">>,
        <<"Review appears to have natural linguistic characteristics">>)

\* determine_verdict with the LIKELY FAKE band starting above 50
determine_verdict_above_50(confidence_score, reasons) ==
    IF confidence_score > 50
    THEN [verdict |-> "LIKELY FAKE", confidence |-> Min(confidence_score, 95),
          reasons |-> reasons]
    ELSE IF confidence_score >= 25
    THEN [verdict |-> "SUSPICIOUS", confidence |-> confidence_score + 30,
          reasons |-> reasons]
    ELSE [verdict |-> "LIKELY GENUINE", confidence |-> 85,
          reasons |-> Append(reasons, OverallReason)]

\* determine_verdict without the cap at 95
determine_verdict_uncapped(confidence_score, reasons) ==
    IF confidence_score >= 50
    THEN [verdict |-> "LIKELY FAKE", confidence |-> confidence_score,
          reasons |-> reasons]
    ELSE IF confidence_score >= 25
    THEN [verdict |-> "SUSPICIOUS", confidence |-> confidence_score + 30,
          reasons |-> reasons]
    ELSE [verdict |-> "LIKELY GENUINE", confidence |-> 85,
          reasons |-> Append(reasons, OverallReason)]

\* determine_verdict without the synthesized reason of the genuine branch
determine_verdict_no_overall(confidence_score, reasons) ==
    IF confidence_score >= 50
    THEN [verdict |-> "LIKELY FAKE", confidence |-> Min(confidence_score, 95),
          reasons |-> reasons]
    ELSE IF confidence_score >= 25
    THEN [verdict |-> "SUSPICIOUS", confidence |-> confidence_score + 30,
          reasons |-> reasons]
    ELSE [verdict |-> "LIKELY GENUINE", confidence |-> 85,
          reasons |-> reasons]

\* determine_verdict naming the top band with an underscore
determine_verdict_underscore(confidence_score, reasons) ==
    IF confidence_score >= 50
    THEN [verdict |-> "LIKELY_FAKE", confidence |-> Min(confidence_score, 95),
          reasons |-> reasons]
    ELSE IF confidence_score >= 25
    THEN [verdict |-> "SUSPICIOUS", confidence |-> confidence_score + 30,
          reasons |-> reasons]
    ELSE [verdict |-> "LIKELY GENUINE", confidence |-> 85,
          reasons |-> Append(reasons, OverallReason)]

\* determine_verdict with the LIKELY FAKE band starting at 25
determine_verdict_fake_from_25(confidence_score, reasons) ==
    IF confidence_score >= 25
    THEN [verdict |-> "LIKELY FAKE", confidence |-> Min(confidence_score, 95),
          reasons |-> reasons]
    ELSE IF confidence_score >= 10
    THEN [verdict |-> "SUSPICIOUS", confidence |-> confidence_score + 30,
          reasons |-> reasons]
    ELSE [verdict |-> "LIKELY GENUINE", confidence |-> 85,
          reasons |-> Append(reasons, OverallReason)]

\* DETERMINE VERDICT: verdict, confidence and the reasons list after it
\* determine_verdict reporting score + 20 in the middle band
determine_verdict_suspicious_plus_20(confidence_score, reasons) ==
    IF confidence_score >= 50
    THEN [verdict |-> "LIKELY FAKE", confidence |-> Min(confidence_score, 95),
          reasons |-> reasons]
    ELSE IF confidence_score >= 25
    THEN [verdict |-> "SUSPICIOUS", confidence |-> confidence_score + 20,
          reasons |-> reasons]
    ELSE [verdict |-> "LIKELY GENUINE", confidence |-> 85,
          reasons |-> Append(reasons, OverallReason)]

\* determine_verdict putting the 'Overall' reason in front
determine_verdict_overall_first(confidence_score, reasons) ==
    IF confidence_score >= 50
    THEN [verdict |-> "LIKELY FAKE", confidence |-> Min(confidence_score, 95),
          reasons |-> reasons]
    ELSE IF confidence_score >= 25
    THEN [verdict |-> "SUSPICIOUS", confidence |-> confidence_score + 30,
          reasons |-> reasons]
    ELSE [verdict |-> "LIKELY GENUINE", confidence |-> 85,
          reasons |-> <<OverallReason>> \o reasons]

determine_verdict(confidence_score, reasons) ==
    IF confidence_score >= 50
    THEN [verdict |-> "LIKELY FAKE", confidence |-> Min(confidence_score, 95),
          reasons |-> reasons]
    ELSE IF confidence_score >= 25
    THEN [verdict |-> "SUSPICIOUS", confidence |-> confidence_score + 30,
          reasons |-> reasons]
    ELSE [verdict |-> "LIKELY GENUINE", confidence |-> 85,
          reasons |-> Append(reasons, OverallReason)]

\* needle in haystack, as Python's `in` on strings: a contiguous run of pieces
Contains(needle, haystack) ==
    \E i \in 0..(Len(haystack) - Len(needle)) :
        SubSeq(haystack, i + 1, i + Len(needle)) = needle

\* the string literal tested against each message on the flag_count line
MARKER == <<>>

flag_count(reasons) ==
    Cardinality({i \in 1..Len(reasons) : Contains(MARKER, reasons[i].message)})

generate_explanation(f, T) ==
    LET acc == run_checks(f, T) IN
    IF acc.exc # NoExc THEN [exc |-> acc.exc, key |-> acc.key]
    ELSE LET v == determine_verdict(acc.confidence_score, acc.reasons) IN
         [ exc        |-> NoExc,
           verdict    |-> v.verdict,
           confidence |-> v.confidence,
           reasons    |-> v.reasons,
           flag_count |-> flag_count(v.reasons) ]

\* sep.join(parts)
RECURSIVE join(_, _)
join(sep, parts) ==
    IF parts = <<>> THEN <<>>
    ELSE IF Len(parts) = 1 THEN Head(parts)
    ELSE Head(parts) \o <<sep>> \o join(sep, Tail(parts))

(***************************************************************************)
(* reason_generator.py: format_explanation_text                            *)
(*                                                                         *)
(* The text is the sequence of its pieces.  The characters of the review   *)
(* are not represented, so its first hundred are the one piece             *)
(* ToString(review_text).                                                  *)
(***************************************************************************)
RULE_EQ == "============================================================"
RULE_DASH == "------------------------------------------------------------"
\* the arrow that precedes each detail
ARROW == "->"

\* the three lines appended for the reason numbered i
reason_lines(i, reason) ==
    << <<"\n", ToString(i), ". ", reason.feature>>,
       <<"   ">> \o reason.message,
       <<"   ", ARROW, " ">> \o reason.detail >>

\* the lines of the for loop, the first reason numbered start
RECURSIVE enumerate_reasons(_, _)
enumerate_reasons(reasons, start) ==
    IF reasons = <<>> THEN <<>>
    ELSE reason_lines(start, Head(reasons))
            \o enumerate_reasons(Tail(reasons), start + 1)

\* format_explanation_text numbering the reasons as enumerate does by default
format_explanation_text_from_zero(analysis_result) ==
    join("\n",
         << <<RULE_EQ>>,
            <<"FAKE REVIEW DETECTION - XAI ANALYSIS">>,
            <<RULE_EQ>>,
            <<"\nReview: \"", ToString(analysis_result.review_text), "...\"">>,
            <<"\n", "VERDICT", ": ", analysis_result.verdict>>,
            <<"CONFIDENCE", ": ", ToString(analysis_result.confidence), "%">>,
            <<"\n", IF analysis_result.flag_count > 0
                    THEN "SUSPICIOUS INDICATORS:" ELSE "ANALYSIS:">>,
            <<RULE_DASH>> >>
         \o enumerate_reasons(analysis_result.reasons, 0)
         \o << <<"\n", RULE_EQ>> >>)

\* format_explanation_text
format_explanation_text(analysis_result) ==
    join("\n",
         << <<RULE_EQ>>,
            <<"FAKE REVIEW DETECTION - XAI ANALYSIS">>,
            <<RULE_EQ>>,
            <<"\nReview: \"", ToString(analysis_result.review_text), "...\"">>,
            <<"\n", "VERDICT", ": ", analysis_result.verdict>>,
            <<"CONFIDENCE", ": ", ToString(analysis_result.confidence), "%">>,
            <<"\n", IF analysis_result.flag_count > 0
                    THEN "SUSPICIOUS INDICATORS:" ELSE "ANALYSIS:">>,
            <<RULE_DASH>> >>
         \o enumerate_reasons(analysis_result.reasons, 1)
         \o << <<"\n", RULE_EQ>> >>)

(***************************************************************************)
(* SpecScore: generate_explanation over bounded inputs                     *)
(***************************************************************************)
NotCalled == [exc |-> "not called"]
NoFeatures == CHOOSE f \in FeatureSets : TRUE
NoRet == [op |-> "none"]

NoPrev == [kept |-> FALSE]

EngineIdle ==
    /\ heap = <<THRESHOLDS>>
    /\ engines = <<>>
    /\ ret = NoRet
    /\ prev = NoPrev

InitScore ==
    /\ features \in FeatureSets
    /\ thresholds = THRESHOLDS
    /\ explanation_data = NotCalled
    /\ EngineIdle

\* thresholds[k] = v by the owner of the dict
ScoreSetThreshold(k, v) ==
    /\ thresholds' = (k :> v) @@ thresholds
    /\ Cardinality(Changed(thresholds')) <= MaxChanged
    /\ explanation_data' =
            IF thresholds' = thresholds THEN explanation_data ELSE NotCalled
    /\ UNCHANGED <<features, engineVars, prev>>

\* del thresholds[k]
ScoreDelThreshold(k) ==
    /\ k \in DOMAIN thresholds
    /\ thresholds' = [j \in (DOMAIN thresholds) \ {k} |-> thresholds[j]]
    /\ Cardinality(Changed(thresholds')) <= MaxChanged
    /\ explanation_data' = NotCalled
    /\ UNCHANGED <<features, engineVars, prev>>

ScoreGenerate ==
    /\ explanation_data' = generate_explanation(features, thresholds)
    /\ UNCHANGED <<features, thresholds, engineVars, prev>>

NextScore ==
    \/ \E k \in ThresholdKeys : \E v \in WriteValues(k) : ScoreSetThreshold(k, v)
    \/ \E k \in ThresholdKeys : ScoreDelThreshold(k)
    \/ ScoreGenerate

SpecScore == InitScore /\ [][NextScore]_vars

(***************************************************************************)
(* Spec: engine instances (xai_engine.py)                                  *)
(*                                                                         *)
(* A review text is represented by what the extractors measure on it: the  *)
(* VADER compound score, the whitespace tokens, the tagger's adjective and *)
(* noun counts, and the counts the Tier 2 detectors make.  The reviews     *)
(* below have ratios that are whole hundredths.                            *)
(***************************************************************************)
ReviewCompounds == {60, 90}
ReviewWords == {5, 20, 250}

Reviews ==
    { [ compound     |-> s,        \* polarity_scores(text)['compound']
        words        |-> w,        \* len(text.split())
        adjectives   |-> 1,        \* JJ* tags
        nouns        |-> 2,        \* NN* tags
        first_person |-> 0,        \* tokens in the first-person list
        spam_found   |-> 1,        \* len(found)
        alpha_words  |-> w,        \* tokens with isalpha()
        caps_words   |-> 0,        \* alphabetic tokens that are upper case, longer than 1
        exclamations |-> 1,        \* runs of !{2,}
        questions    |-> 0,        \* runs of ?{2,}
        ellipses     |-> 0,        \* runs of .{3,}
        unique_words |-> w ] :     \* len(set(words))
        s \in ReviewCompounds, w \in ReviewWords }

\* extract_adjective_noun_ratio giving 0 for a text without nouns
extract_adjective_noun_ratio_zero_without_nouns(review_text) ==
    [ ratio      |-> IF review_text.nouns = 0 THEN 0
                     ELSE (review_text.adjectives * 100) \div review_text.nouns,
      adjectives |-> review_text.adjectives,
      nouns      |-> review_text.nouns ]

\* extract_adjective_noun_ratio: ratio = adjectives / max(nouns, 1)
extract_adjective_noun_ratio(review_text) ==
    [ ratio      |-> (review_text.adjectives * 100) \div Max(review_text.nouns, 1),
      adjectives |-> review_text.adjectives,
      nouns      |-> review_text.nouns ]

\* FakeReviewXAI.extract_all_features; the list spam_keywords_found is
\* represented by its length, spam_keyword_count
extract_all_features(review_text) ==
    [ sentiment             |-> review_text.compound,
      word_count            |-> review_text.words,
      adj_noun_ratio        |-> extract_adjective_noun_ratio(review_text).ratio,
      adjective_count       |-> extract_adjective_noun_ratio(review_text).adjectives,
      noun_count            |-> extract_adjective_noun_ratio(review_text).nouns,
      first_person_ratio    |->
            (review_text.first_person * 100) \div Max(review_text.words, 1),
      first_person_count    |-> review_text.first_person,
      spam_keyword_count    |-> review_text.spam_found,
      caps_ratio            |->
            (review_text.caps_words * 100) \div Max(review_text.alpha_words, 1),
      caps_count            |-> review_text.caps_words,
      excessive_punct_count |->
            review_text.exclamations + review_text.questions + review_text.ellipses,
      uniqueness_ratio      |->
            (review_text.unique_words * 100) \div Max(review_text.words, 1) ]

\* the reference of the module-level dict config.THRESHOLDS
ModuleRef == 1

\* dict.copy(): a new dict object with the same items
dict_copy(h, ref) == [ref |-> Len(h) + 1, heap |-> Append(h, h[ref])]

\* FakeReviewXAI.__init__ keeping a reference to config.THRESHOLDS itself
FakeReviewXAI_init_shared(h) ==
    [self |-> [thresholds |-> ModuleRef], heap |-> h]

\* FakeReviewXAI.__init__: self.thresholds = THRESHOLDS.copy()
FakeReviewXAI_init(h) ==
    LET c == dict_copy(h, ModuleRef) IN
    [self |-> [thresholds |-> c.ref], heap |-> c.heap]

\* analyze_review scoring against config.THRESHOLDS instead of self.thresholds
analyze_review_module_thresholds(h, self, review_text) ==
    LET f == extract_all_features(review_text)
        explanation == generate_explanation(f, h[ModuleRef])
    IN  IF explanation.exc # NoExc THEN explanation
        ELSE [ exc         |-> NoExc,
               review_text |-> review_text,
               features    |-> f,
               verdict     |-> explanation.verdict,
               confidence  |-> explanation.confidence,
               reasons     |-> explanation.reasons,
               flag_count  |-> explanation.flag_count ]

\* analyze_review appending to one reasons list that outlives the call: the
\* reasons of the call made just before are still in it
analyze_review_shared_reasons(h, self, review_text) ==
    LET f == extract_all_features(review_text)
        explanation == generate_explanation(f, h[self.thresholds])
        earlier == IF ret.op = "analyze_review" /\ ret.result.exc = NoExc
                   THEN ret.result.reasons ELSE <<>>
    IN  IF explanation.exc # NoExc THEN explanation
        ELSE [ exc         |-> NoExc,
               review_text |-> review_text,
               features    |-> f,
               verdict     |-> explanation.verdict,
               confidence  |-> explanation.confidence,
               reasons     |-> earlier \o explanation.reasons,
               flag_count  |-> flag_count(earlier \o explanation.reasons) ]

\* FakeReviewXAI.analyze_review
analyze_review(h, self, review_text) ==
    LET f == extract_all_features(review_text)
        explanation == generate_explanation(f, h[self.thresholds])
    IN  IF explanation.exc # NoExc THEN explanation
        ELSE [ exc         |-> NoExc,
               review_text |-> review_text,
               features    |-> f,
               verdict     |-> explanation.verdict,
               confidence  |-> explanation.confidence,
               reasons     |-> explanation.reasons,
               flag_count  |-> explanation.flag_count ]

\* a method that moves WORD_COUNT_MIN of its instance to the word count of
\* the review it is given
heap_after_adapting(h, self, method, review_text) ==
    IF method = "analyze_review"
    THEN [h EXCEPT ![self.thresholds] = ("WORD_COUNT_MIN" :> review_text.words) @@ @]
    ELSE h

\* the dict objects after extract_all_features, analyze_review or
\* format_explanation has run on self: none of the three stores into
\* self.thresholds or into config.THRESHOLDS
heap_after(h, self, method, review_text) == h

ScoreIdle ==
    /\ features = NoFeatures
    /\ thresholds = THRESHOLDS
    /\ explanation_data = NotCalled

\* the state after the modules are imported: config.THRESHOLDS exists, no engine
Init ==
    /\ EngineIdle
    /\ ScoreIdle

RECURSIVE ChangedInHeap(_)
ChangedInHeap(h) ==
    IF h = <<>> THEN 0
    ELSE Cardinality(Changed(Head(h))) + ChangedInHeap(Tail(h))

\* xai = FakeReviewXAI()
Construct ==
    /\ Len(engines) < MaxEngines
    /\ LET r == FakeReviewXAI_init(heap) IN
        /\ heap' = r.heap
        /\ engines' = Append(engines, r.self)
        /\ ret' = [op |-> "__init__", engine |-> Len(engines) + 1]
    /\ UNCHANGED <<scoreVars, prev>>

\* xai.thresholds[k] = v
SetThreshold(e, k, v) ==
    /\ heap' = [heap EXCEPT ![engines[e].thresholds] = (k :> v) @@ @]
    /\ ChangedInHeap(heap') <= MaxChanged
    /\ ret' = [op |-> "setitem", engine |-> e]
    /\ UNCHANGED <<engines, scoreVars, prev>>

\* result = xai.analyze_review(review_text)
AnalyzeReview(e, review_text) ==
    /\ ret' = [op |-> "analyze_review", engine |-> e, review_text |-> review_text,
               result |-> analyze_review(heap, engines[e], review_text)]
    /\ heap' = heap_after(heap, engines[e], "analyze_review", review_text)
    /\ UNCHANGED <<engines, scoreVars, prev>>

Next ==
    \/ Construct
    \/ \E e \in 1..Len(engines) : \E k \in ThresholdKeys : \E v \in WriteValues(k) :
            SetThreshold(e, k, v)
    \/ \E e \in 1..Len(engines) : \E review_text \in Reviews :
            AnalyzeReview(e, review_text)

Spec == Init /\ [][Next]_vars

(***************************************************************************)
(* SpecRepeat: a caller that keeps a result and calls again                *)
(*                                                                         *)
(* As test_threshold_usage does: result_default is kept, thresholds are    *)
(* written, analyze_review is called again and the two results are         *)
(* compared; as test_format_output does, a result is formatted.  The keys  *)
(* written are the two that test writes.                                   *)
(***************************************************************************)
RepeatKeys == {"SENTIMENT_EXTREME", "WORD_COUNT_MIN"}

\* kept = xai.analyze_review(review_text): the caller holds on to the result
\* of the call just made, with the text, the instance and the thresholds
\* of that call
KeepResult ==
    /\ ret.op = "analyze_review"
    /\ prev' = [ kept        |-> TRUE,
                 engine      |-> ret.engine,
                 review_text |-> ret.review_text,
                 thresholds  |-> heap[engines[ret.engine].thresholds],
                 result      |-> ret.result ]
    /\ prev' # prev
    /\ UNCHANGED <<engineVars, scoreVars>>

\* text = xai.format_explanation(kept)
FormatExplanation(e) ==
    /\ prev.kept
    /\ prev.result.exc = NoExc
    /\ ret' = [op |-> "format_explanation", engine |-> e,
               analysis_result |-> prev.result,
               text |-> format_explanation_text(prev.result)]
    /\ heap' = heap_after(heap, engines[e], "format_explanation",
                          prev.result.review_text)
    /\ UNCHANGED <<engines, scoreVars, prev>>

\* features = xai.extract_all_features(text), on the text of the kept call
ExtractAllFeatures(e) ==
    /\ prev.kept
    /\ ret' = [op |-> "extract_all_features", engine |-> e,
               review_text |-> prev.review_text,
               result |-> extract_all_features(prev.review_text)]
    /\ heap' = heap_after(heap, engines[e], "extract_all_features",
                          prev.review_text)
    /\ UNCHANGED <<engines, scoreVars, prev>>

NextRepeat ==
    \/ Construct
    \/ \E e \in 1..Len(engines) : \E k \in RepeatKeys : \E v \in WriteValues(k) :
            SetThreshold(e, k, v)
    \/ \E e \in 1..Len(engines) : \E review_text \in Reviews :
            AnalyzeReview(e, review_text)
    \/ KeepResult
    \/ \E e \in 1..Len(engines) : FormatExplanation(e)
    \/ \E e \in 1..Len(engines) : ExtractAllFeatures(e)

SpecRepeat == Init /\ [][NextRepeat]_vars

(***************************************************************************)
(* The extractors on texts (XAI_engine/feature_extractors.py)              *)
(*                                                                         *)
(* A text is its whitespace tokens, one space apart, together with what    *)
(* the libraries outside the repository return for it: VADER's compound    *)
(* score and the tagger's adjective and noun counts.  What str.lower,      *)
(* str.isalpha, str.isupper, len and the punctuation patterns give on a    *)
(* token is tabulated for the tokens used.                                 *)
(***************************************************************************)
\* at most this many tokens in a text built from BoundedVocabulary
MaxTokens == 2

Tok(lower, isalpha, isupper, len, bangs) ==
    [lower |-> lower, isalpha |-> isalpha, isupper |-> isupper, len |-> len,
     bangs |-> bangs]

\* token |-> lower(), isalpha(), isupper(), len(), number of matches of !{2,}
TokenInfo ==
    ("AMAZING!!!" :> Tok("amazing!!!", FALSE, TRUE, 10, 1))
    @@ ("BEST"    :> Tok("best",     TRUE,  TRUE,  4, 0))
    @@ ("PRODUCT" :> Tok("product",  TRUE,  TRUE,  7, 0))
    @@ ("EVER!!!" :> Tok("ever!!!",  FALSE, TRUE,  7, 1))
    @@ ("I"       :> Tok("i",        TRUE,  TRUE,  1, 0))
    @@ ("LOVE"    :> Tok("love",     TRUE,  TRUE,  4, 0))
    @@ ("IT"      :> Tok("it",       TRUE,  TRUE,  2, 0))
    @@ ("SO"      :> Tok("so",       TRUE,  TRUE,  2, 0))
    @@ ("MUCH!!!" :> Tok("much!!!",  FALSE, TRUE,  7, 1))
    @@ ("Great"   :> Tok("great",    TRUE,  FALSE, 5, 0))
    @@ ("great"   :> Tok("great",    TRUE,  FALSE, 5, 0))
    @@ ("product!" :> Tok("product!", FALSE, FALSE, 8, 0))
    @@ ("Test"    :> Tok("test",     TRUE,  FALSE, 4, 0))
    @@ ("review"  :> Tok("review",   TRUE,  FALSE, 6, 0))

\* the tokens the bounded texts are built from: a one-letter upper-case word,
\* an upper-case word, an upper-case token with punctuation, and a
\* lower-case word
BoundedVocabulary == {"I", "BEST", "EVER!!!", "great"}

\* the first_person list of extract_first_person_ratio
first_person == {"i", "me", "my", "mine", "myself", "we", "us", "our", "ours",
                 "ourselves"}

\* positions of the tokens of a text
Pos(tokens) == 1..Len(tokens)

\* extract_word_count: len(review_text.split())
extract_word_count(tokens) == Len(tokens)

\* extract_first_person_ratio: count
first_person_count(tokens) ==
    Cardinality({i \in Pos(tokens) : TokenInfo[tokens[i]].lower \in first_person})

\* detect_excessive_caps: words, the positions of the tokens with isalpha()
alpha_words(tokens) == {i \in Pos(tokens) : TokenInfo[tokens[i]].isalpha}

\* caps_words taken from all the tokens instead of from words
caps_words_of_all_tokens(tokens) ==
    {i \in Pos(tokens) :
        TokenInfo[tokens[i]].isupper /\ TokenInfo[tokens[i]].len > 1}

\* detect_excessive_caps: caps_words
caps_words(tokens) ==
    {i \in alpha_words(tokens) :
        TokenInfo[tokens[i]].isupper /\ TokenInfo[tokens[i]].len > 1}

\* detect_excessive_punctuation: exclamations; a run lies within one token
RECURSIVE exclamations(_)
exclamations(tokens) ==
    IF tokens = <<>> THEN 0
    ELSE TokenInfo[Head(tokens)].bangs + exclamations(Tail(tokens))

\* calculate_text_redundancy: unique_words
unique_words(tokens) == {TokenInfo[tokens[i]].lower : i \in Pos(tokens)}

\* detect_spam_keywords: the keywords that occur in review_text.lower(); of
\* the fifteen keywords the tokens above can form 'amazing' and 'best ever'
spam_keywords_found(tokens) ==
    {k \in {"amazing"} :
        \E i \in Pos(tokens) : TokenInfo[tokens[i]].lower = "amazing!!!"}
    \cup
    {k \in {"best ever"} :
        \E i \in 1..(Len(tokens) - 1) :
            /\ TokenInfo[tokens[i]].lower = "best"
            /\ TokenInfo[tokens[i + 1]].lower = "ever!!!"}

\* what the extractors count on a text, before any ratio is taken
Measure(text) ==
    [ compound     |-> text.compound,
      words        |-> extract_word_count(text.tokens),
      adjectives   |-> text.adjectives,
      nouns        |-> text.nouns,
      first_person |-> first_person_count(text.tokens),
      spam_found   |-> Cardinality(spam_keywords_found(text.tokens)),
      alpha_words  |-> Cardinality(alpha_words(text.tokens)),
      caps_words   |-> Cardinality(caps_words(text.tokens)),
      exclamations |-> exclamations(text.tokens),
      questions    |-> 0,
      ellipses     |-> 0,
      unique_words |-> Cardinality(unique_words(text.tokens)) ]

(***************************************************************************)
(* SpecApi: the hybrid analyzer and the backend interface                  *)
(*          (Integration/hybrid_analyzer.py, Integration/api_interface.py) *)
(*                                                                         *)
(* The DistilBERT forward pass is outside the repository: what it yields   *)
(* for a text is an input of the call, either the softmax row              *)
(* [prob_fake, prob_real] or an exception.  Probabilities are fixed-point  *)
(* integers in units of 0.00001.                                           *)
(***************************************************************************)
ModelOutputs ==
    { [exc |-> NoExc, probabilities |-> <<87654, 12346>>],
      [exc |-> NoExc, probabilities |-> <<9, 99991>>],
      [exc |-> NoExc, probabilities |-> <<50000, 50000>>],
      [exc |-> "RuntimeError", key |-> "CUDA out of memory"] }

\* HybridAnalyzer.__init__: self.id2label
id2label == (0 :> "CG") @@ (1 :> "OR")

\* HybridAnalyzer.__init__: self.label2prediction
label2prediction == [CG |-> "FAKE", OR |-> "REAL"]

\* HybridAnalyzer.predict_distilbert; torch.argmax returns the first maximum
predict_distilbert(model_output) ==
    IF model_output.exc # NoExc THEN model_output
    ELSE LET probabilities == model_output.probabilities
             predicted_class == IF probabilities[1] >= probabilities[2] THEN 0 ELSE 1
             confidence == probabilities[predicted_class + 1]
             label == id2label[predicted_class]
         IN  [ exc           |-> NoExc,
               label         |-> label,
               prediction    |-> label2prediction[label],
               confidence    |-> confidence,
               probabilities |-> probabilities ]

\* round(x, 4) on a value in units of 0.00001 (no input here is a tie)
round4(x) == ((x + 5) \div 10) * 10

\* the rule engine counted as saying fake only on 'LIKELY FAKE'
xai_says_fake_strict(verdict) == verdict = "LIKELY FAKE"

\* HybridAnalyzer.analyze, step 3: xai_result['verdict'] in [...]
xai_says_fake(verdict) == verdict \in {"LIKELY FAKE", "SUSPICIOUS"}

\* HybridAnalyzer.analyze, step 3: distilbert_result['prediction'] == 'FAKE'
distilbert_says_fake(prediction) == prediction = "FAKE"

\* the combined dict with the primary confidence rounded as the interface does
combine_results_rounded(review_text, distilbert_result, xai_result, agreement) ==
    [ exc           |-> NoExc,
      review_text   |-> review_text,
      prediction    |-> distilbert_result.prediction,
      confidence    |-> round4(distilbert_result.confidence),
      model_label   |-> distilbert_result.label,
      probabilities |-> distilbert_result.probabilities,
      explanation   |-> [ verdict        |-> xai_result.verdict,
                          xai_confidence |-> xai_result.confidence,
                          reasons        |-> xai_result.reasons,
                          features       |-> xai_result.features,
                          flag_count     |-> xai_result.flag_count ],
      agreement     |-> agreement ]

\* HybridAnalyzer.analyze, step 4: the combined dict
combine_results(review_text, distilbert_result, xai_result, agreement) ==
    [ exc           |-> NoExc,
      review_text   |-> review_text,
      prediction    |-> distilbert_result.prediction,
      confidence    |-> distilbert_result.confidence,
      model_label   |-> distilbert_result.label,
      probabilities |-> distilbert_result.probabilities,
      explanation   |-> [ verdict        |-> xai_result.verdict,
                          xai_confidence |-> xai_result.confidence,
                          reasons        |-> xai_result.reasons,
                          features       |-> xai_result.features,
                          flag_count     |-> xai_result.flag_count ],
      agreement     |-> agreement ]

\* the collaborators called, in call order
PrimaryOnly == <<"predict_distilbert">>
PrimaryThenRules == <<"predict_distilbert", "analyze_review">>
RulesThenPrimary == <<"analyze_review", "predict_distilbert">>

\* HybridAnalyzer.analyze, steps 3 and 4, given what the two calls yielded
analyze_combine(review_text, distilbert_result, xai_result) ==
    IF xai_result.exc # NoExc
    THEN [out |-> xai_result, calls |-> PrimaryThenRules]
    ELSE [ out   |-> combine_results(
                        review_text, distilbert_result, xai_result,
                        distilbert_says_fake(distilbert_result.prediction)
                            = xai_says_fake(xai_result.verdict)),
           calls |-> PrimaryThenRules ]

\* HybridAnalyzer.analyze from step 2 on, given what predict_distilbert
\* yielded: an exception leaves analyze here
analyze_after_primary(h, self, review_text, distilbert_result) ==
    IF distilbert_result.exc # NoExc
    THEN [out |-> distilbert_result, calls |-> PrimaryOnly]
    ELSE analyze_combine(review_text, distilbert_result,
                         analyze_review(h, self.xai_engine, review_text))

\* the rule engine asked first and its verdict returned as the prediction
\* when the classifier fails
analyze_fallback(review_text, distilbert_result, xai_result) ==
    IF xai_result.exc # NoExc
    THEN [out |-> xai_result, calls |-> <<"analyze_review">>]
    ELSE IF distilbert_result.exc # NoExc
    THEN [ out   |-> combine_results(
                        review_text,
                        [ label         |-> "CG",
                          prediction    |-> IF xai_says_fake(xai_result.verdict)
                                            THEN "FAKE" ELSE "REAL",
                          confidence    |-> xai_result.confidence * 1000,
                          probabilities |-> <<0, 0>> ],
                        xai_result, TRUE),
           calls |-> RulesThenPrimary ]
    ELSE [ out   |-> combine_results(
                        review_text, distilbert_result, xai_result,
                        distilbert_says_fake(distilbert_result.prediction)
                            = xai_says_fake(xai_result.verdict)),
           calls |-> RulesThenPrimary ]

\* HybridAnalyzer.analyze asking the rule engine first and answering from
\* its verdict when the classifier fails
HybridAnalyzer_analyze_fallback(h, self, review_text, model_output) ==
    analyze_fallback(review_text, predict_distilbert(model_output),
                     analyze_review(h, self.xai_engine, review_text))

\* HybridAnalyzer.analyze: the value returned or the exception raised (out)
\* and the collaborators it called (calls)
HybridAnalyzer_analyze(h, self, review_text, model_output) ==
    analyze_after_primary(h, self, review_text, predict_distilbert(model_output))

\* what the backend passes as review_text: the Python type, len() of a str
\* or the value of an int (size), whether strip() leaves nothing (blank),
\* and the review the text is
NoReview == CHOOSE r \in Reviews : TRUE

ApiInputs ==
    { [type |-> "str", size |-> r.words, blank |-> FALSE, text |-> r] :
            r \in Reviews }
    \cup
    { [type |-> "str",      size |-> 0,   blank |-> TRUE,  text |-> NoReview],
      [type |-> "str",      size |-> 3,   blank |-> TRUE,  text |-> NoReview],
      [type |-> "NoneType", size |-> 0,   blank |-> FALSE, text |-> NoReview],
      [type |-> "int",      size |-> 0,   blank |-> FALSE, text |-> NoReview],
      [type |-> "int",      size |-> 123, blank |-> FALSE, text |-> NoReview] }

\* Python truth value of the argument
truthy(x) == x.type # "NoneType" /\ x.size # 0

None == "None"

\* the dict predict returns on every failure path
failure(error) ==
    [ success     |-> FALSE,
      error       |-> error,
      prediction  |-> None,
      confidence  |-> None,
      explanation |-> None ]

\* str(e)
exc_str(e) == IF e.exc = "KeyError" THEN <<"'", e.key, "'">> ELSE <<e.key>>

NO_PATTERNS == <<"No suspicious patterns detected.">>

\* the loop of _format_explanation: one part per reason, 'Overall' skipped
RECURSIVE explanation_parts(_)
explanation_parts(reasons) ==
    IF reasons = <<>> THEN <<>>
    ELSE (IF Head(reasons).feature = "Overall" THEN <<>>
          ELSE <<(<<Head(reasons).feature, ": ">> \o Head(reasons).detail)>>)
            \o explanation_parts(Tail(reasons))

\* _format_explanation without the check for an empty list of parts
_format_explanation_unguarded(analysis) ==
    LET reasons == analysis.explanation.reasons IN
    IF reasons = <<>> THEN NO_PATTERNS
    ELSE join("; ", explanation_parts(reasons))

\* ReviewAnalyzer._format_explanation
_format_explanation(analysis) ==
    LET reasons == analysis.explanation.reasons IN
    IF reasons = <<>> THEN NO_PATTERNS
    ELSE LET explanation_parts_ == explanation_parts(reasons) IN
         IF explanation_parts_ = <<>> THEN NO_PATTERNS
         ELSE join("; ", explanation_parts_)

\* the dict of the success path of predict, given the analysis
success(analysis) ==
    [ success     |-> TRUE,
      prediction  |-> analysis.prediction,
      confidence  |-> round4(analysis.confidence),
      explanation |-> _format_explanation(analysis),
      details     |-> [ model_verdict |-> analysis.prediction,
                        xai_verdict   |-> analysis.explanation.verdict,
                        flags         |-> analysis.explanation.flag_count,
                        agreement     |-> analysis.agreement ] ]

\* the body of the try block with no except clause after it
predict_no_try(a) ==
    IF a.out.exc # NoExc THEN a
    ELSE [out |-> success(a.out), calls |-> <<"analyze">> \o a.calls]

\* the try/except of predict, given what self._analyzer.analyze did
predict_try(a) ==
    IF a.out.exc # NoExc
    THEN [ out   |-> failure(<<"Analysis failed: ">> \o exc_str(a.out)),
           calls |-> <<"analyze">> \o a.calls ]
    ELSE [out |-> success(a.out), calls |-> <<"analyze">> \o a.calls]

\* the three input guards of predict; NoExc when the input passes them
input_guards(review_text) ==
    IF ~truthy(review_text)
    THEN [exc |-> "guard", out |-> failure(<<"Review text cannot be empty">>)]
    ELSE IF review_text.type # "str"
    THEN [exc |-> "guard", out |-> failure(<<"Review text must be a string">>)]
    ELSE IF review_text.blank
    THEN [ exc |-> "guard",
           out |-> failure(<<"Review text cannot be empty or whitespace only">>) ]
    ELSE [exc |-> NoExc]

\* ReviewAnalyzer.predict: the dict returned (out) and the calls made; an
\* out with an exc field would be an exception leaving predict
ReviewAnalyzer_predict(h, self, review_text, model_output) ==
    IF input_guards(review_text).exc # NoExc
    THEN [out |-> input_guards(review_text).out, calls |-> <<>>]
    ELSE predict_try(HybridAnalyzer_analyze(h, self.analyzer, review_text.text,
                                            model_output))

\* the try/except of health_check, given what self.predict("Test review")
\* did: predict returns a dict on every path, so the except clause is taken
\* only if an exception leaves predict
health_check_try(test_result) ==
    IF "exc" \in DOMAIN test_result.out
    THEN [ status       |-> "unhealthy",
           model_loaded |-> FALSE,
           error        |-> exc_str(test_result.out) ]
    ELSE [ status          |-> "healthy",
           model_loaded    |-> TRUE,
           test_prediction |-> test_result.out.success ]

\* health_check: "Test review"
TEST_REVIEW == <<"Test", "review">>

\* the argument health_check passes to predict, with what VADER and the
\* tagger return for it
TestReviewInputs ==
    { [ type |-> "str", size |-> 11, blank |-> FALSE,
        text |-> Measure([ tokens |-> TEST_REVIEW, compound |-> 0,
                           adjectives |-> a, nouns |-> 2 - a ]) ] :
            a \in {0, 1} }

\* ReviewAnalyzer.health_check
ReviewAnalyzer_health_check(h, self, test_review, model_output) ==
    health_check_try(ReviewAnalyzer_predict(h, self, test_review, model_output))

\* the state after ReviewAnalyzer(): its HybridAnalyzer holds one FakeReviewXAI
InitApi ==
    /\ LET r == FakeReviewXAI_init(<<THRESHOLDS>>) IN
        /\ heap = r.heap
        /\ engines = <<r.self>>
    /\ ret = NoRet
    /\ prev = NoPrev
    /\ ScoreIdle

\* the HybridAnalyzer and the ReviewAnalyzer that owns it
hybrid_analyzer == [xai_engine |-> engines[1]]
review_analyzer == [analyzer |-> hybrid_analyzer]

\* del analyzer.xai_engine.thresholds[k]
DelThreshold(e, k) ==
    /\ k \in DOMAIN heap[engines[e].thresholds]
    /\ heap' = [heap EXCEPT ![engines[e].thresholds] =
                    [j \in (DOMAIN @) \ {k} |-> @[j]]]
    /\ ChangedInHeap(heap') <= MaxChanged
    /\ ret' = [op |-> "delitem", engine |-> e]
    /\ UNCHANGED <<engines, scoreVars, prev>>

\* result = analyzer.analyze(review_text)
HybridAnalyze(review_text, model_output) ==
    /\ LET r == HybridAnalyzer_analyze(heap, hybrid_analyzer, review_text,
                                       model_output)
       IN  ret' = [ op |-> "analyze", review_text |-> review_text,
                    model_output |-> model_output,
                    out |-> r.out, calls |-> r.calls ]
    /\ UNCHANGED <<heap, engines, scoreVars, prev>>

\* result = review_analyzer.predict(review_text)
Predict(review_text, model_output) ==
    /\ LET r == ReviewAnalyzer_predict(heap, review_analyzer, review_text,
                                       model_output)
       IN  ret' = [ op |-> "predict", review_text |-> review_text,
                    model_output |-> model_output,
                    out |-> r.out, calls |-> r.calls ]
    /\ UNCHANGED <<heap, engines, scoreVars, prev>>

\* health = review_analyzer.health_check(); test_result is what the predict
\* call inside returned
HealthCheck(test_review, model_output) ==
    /\ ret' = [ op |-> "health_check", review_text |-> test_review,
                model_output |-> model_output,
                test_result |->
                    ReviewAnalyzer_predict(heap, review_analyzer, test_review,
                                           model_output).out,
                out |-> ReviewAnalyzer_health_check(heap, review_analyzer,
                                                    test_review, model_output) ]
    /\ UNCHANGED <<heap, engines, scoreVars, prev>>

NextApi ==
    \/ \E k \in ThresholdKeys : \E v \in WriteValues(k) : SetThreshold(1, k, v)
    \/ \E k \in ThresholdKeys : DelThreshold(1, k)
    \/ \E review_text \in Reviews : \E model_output \in ModelOutputs :
            HybridAnalyze(review_text, model_output)
    \/ \E review_text \in ApiInputs : \E model_output \in ModelOutputs :
            Predict(review_text, model_output)
    \/ \E test_review \in TestReviewInputs : \E model_output \in ModelOutputs :
            HealthCheck(test_review, model_output)

SpecApi == InitApi /\ [][NextApi]_vars

(***************************************************************************)
(* SpecText: the engine on texts given token by token                      *)
(***************************************************************************)
\* test_obvious_fake_review: "AMAZING!!! BEST PRODUCT EVER!!! I LOVE IT SO MUCH!!!"
FAKE_REVIEW == <<"AMAZING!!!", "BEST", "PRODUCT", "EVER!!!", "I", "LOVE", "IT",
                 "SO", "MUCH!!!">>

\* test_format_output: "Great product!"
GREAT_PRODUCT == <<"Great", "product!">>

TokenSeqs ==
    UNION {[1..n -> BoundedVocabulary] : n \in 0..MaxTokens}
    \cup {FAKE_REVIEW, GREAT_PRODUCT}

TextCompounds == {0, 90}
TextAdjectives == {0, 1, 3}
TextNouns == {0, 1}

\* a text with no token has a compound score of 0, and the tagger tags no
\* more adjectives and nouns than there are tokens
Texts ==
    { t \in [ tokens     : TokenSeqs,
              compound   : TextCompounds,
              adjectives : TextAdjectives,
              nouns      : TextNouns ] :
        /\ t.adjectives + t.nouns <= Len(t.tokens)
        /\ t.tokens = <<>> => t.compound = 0 }

\* the state after xai = FakeReviewXAI()
InitText ==
    /\ LET r == FakeReviewXAI_init(<<THRESHOLDS>>) IN
        /\ heap = r.heap
        /\ engines = <<r.self>>
    /\ ret = NoRet
    /\ prev = NoPrev
    /\ ScoreIdle

\* features = xai.extract_all_features(text)
ExtractFromText(text) ==
    /\ ret' = [op |-> "extract_all_features", engine |-> 1, text |-> text,
               result |-> extract_all_features(Measure(text))]
    /\ heap' = heap_after(heap, engines[1], "extract_all_features", Measure(text))
    /\ UNCHANGED <<engines, scoreVars, prev>>

\* result = xai.analyze_review(text)
AnalyzeText(text) ==
    /\ ret' = [op |-> "analyze_review", engine |-> 1, text |-> text,
               result |-> analyze_review(heap, engines[1], Measure(text))]
    /\ heap' = heap_after(heap, engines[1], "analyze_review", Measure(text))
    /\ UNCHANGED <<engines, scoreVars, prev>>

NextText ==
    \/ \E text \in Texts : ExtractFromText(text)
    \/ \E text \in Texts : AnalyzeText(text)

SpecText == InitText /\ [][NextText]_vars

(***************************************************************************)
(* What a returned result says, read back from the result alone            *)
(***************************************************************************)
Returned(r) == r.exc = NoExc

\* positions of the reasons that report a breach (every reason but 'Overall')
BreachPositions(reasons) == {i \in 1..Len(reasons) : reasons[i].feature # "Overall"}

\* the weight the scorer adds together with a reason
ReasonWeight(r) ==
    CASE r.feature = "Sentiment"      -> WEIGHT_SENTIMENT
      [] r.feature = "Length"         ->
            IF Contains(<<"Suspiciously short review (">>, r.message)
            THEN WEIGHT_SHORT ELSE WEIGHT_LONG
      [] r.feature = "Specificity"    -> WEIGHT_ADJ_NOUN
      [] r.feature = "Self-Reference" -> WEIGHT_FIRST_PERSON
      [] r.feature = "Spam Language"  -> WEIGHT_SPAM
      [] r.feature = "Capitalization" -> WEIGHT_CAPS
      [] r.feature = "Punctuation"    -> WEIGHT_PUNCT
      [] r.feature = "Redundancy"     -> WEIGHT_REDUNDANCY
      [] OTHER                        -> 0

RECURSIVE SumWeights(_)
SumWeights(reasons) ==
    IF reasons = <<>> THEN 0
    ELSE ReasonWeight(Head(reasons)) + SumWeights(Tail(reasons))

\* severity order of the verdicts
Severity(verdict) ==
    CASE verdict = "LIKELY GENUINE" -> 0
      [] verdict = "SUSPICIOUS"     -> 1
      [] verdict = "LIKELY FAKE"    -> 2

\* the fixed Tier 1 -> Tier 2 order of the reason categories
FeatureRank(feature) ==
    CASE feature = "Sentiment"      -> 1
      [] feature = "Length"         -> 2
      [] feature = "Specificity"    -> 3
      [] feature = "Self-Reference" -> 4
      [] feature = "Spam Language"  -> 5
      [] feature = "Capitalization" -> 6
      [] feature = "Punctuation"    -> 7
      [] feature = "Redundancy"     -> 8
      [] OTHER                      -> 9

\* the features of f that breach a complete thresholds dict T
Breaches(f, T) ==
    {k \in {"Sentiment"}      : abs(f.sentiment) > T.SENTIMENT_EXTREME}
    \cup {k \in {"Length"}    : f.word_count < T.WORD_COUNT_MIN
                                 \/ f.word_count >= T.WORD_COUNT_MAX}
    \cup {k \in {"Specificity"}    : f.adj_noun_ratio > T.ADJ_NOUN_RATIO}
    \cup {k \in {"Self-Reference"} : f.first_person_ratio > T.FIRST_PERSON_RATIO}
    \cup {k \in {"Spam Language"}  : f.spam_keyword_count >= T.SPAM_KEYWORD_MIN}
    \cup {k \in {"Capitalization"} : f.caps_ratio > T.CAPS_RATIO_MAX}
    \cup {k \in {"Punctuation"}    : f.excessive_punct_count >= T.EXCESSIVE_PUNCT_MIN}
    \cup {k \in {"Redundancy"}     : f.uniqueness_ratio < T.UNIQUENESS_RATIO_MIN}

Complete(T) == ThresholdKeys \subseteq DOMAIN T

\* T2 is T1 with exactly one threshold made easier to breach
SingleTightening(T1, T2) ==
    /\ Complete(T1)
    /\ Complete(T2)
    /\ \E k \in ThresholdKeys :
        /\ \A j \in ThresholdKeys \ {k} : T2[j] = T1[j]
        /\ IF k \in LowerKeys THEN T2[k] > T1[k] ELSE T2[k] < T1[k]

(***************************************************************************)
(* Claims on generate_explanation (SpecScore)                              *)
(***************************************************************************)

\* C1: flag_count equals the number of reasons that report a breach; the
\* synthesized 'Overall' reason is not counted.
C1_FlagCountExcludesOverall ==
    Returned(explanation_data) =>
        explanation_data.flag_count
            = Cardinality(BreachPositions(explanation_data.reasons))

\* C2: making one threshold easier to breach, with the features and the other
\* thresholds fixed, never lowers flag_count and never lowers the severity of
\* the verdict.
C2_TighteningMonotone ==
    [][SingleTightening(thresholds, thresholds') =>
        LET before == generate_explanation(features, thresholds)
            after  == generate_explanation(features, thresholds')
        IN  /\ after.flag_count >= before.flag_count
            /\ Severity(after.verdict) >= Severity(before.verdict)]_vars

\* C3: with any scoring threshold key absent from the mapping,
\* generate_explanation fails with an error, whatever the features.
C3_MissingThresholdFails ==
    (explanation_data # NotCalled /\ ~Complete(thresholds)) =>
        explanation_data.exc = "KeyError"

\* C4: verdict and confidence are determined by the accumulated score (the
\* sum of the weights of the reported breaches): >= 50 LIKELY FAKE with
\* min(score, 95); 25..49 SUSPICIOUS with score + 30; < 25 LIKELY GENUINE
\* with 85.
C4_VerdictBands ==
    Returned(explanation_data) =>
        LET score == SumWeights(explanation_data.reasons) IN
        /\ score >= 50 =>
            /\ explanation_data.verdict = "LIKELY FAKE"
            /\ explanation_data.confidence = Min(score, 95)
        /\ (25 <= score /\ score < 50) =>
            /\ explanation_data.verdict = "SUSPICIOUS"
            /\ explanation_data.confidence = score + 30
        /\ score < 25 =>
            /\ explanation_data.verdict = "LIKELY GENUINE"
            /\ explanation_data.confidence = 85

\* a LIKELY FAKE result whose score is on the band's lower edge
C4_Witness ==
    /\ Returned(explanation_data)
    /\ SumWeights(explanation_data.reasons) = 50
    /\ explanation_data.verdict = "LIKELY FAKE"

\* C5: the reported confidence is within 0..95, and it is exactly 85 whenever
\* the verdict is LIKELY GENUINE.
C5_ConfidenceBounds ==
    Returned(explanation_data) =>
        /\ 0 <= explanation_data.confidence
        /\ explanation_data.confidence <= 95
        /\ explanation_data.verdict = "LIKELY GENUINE" =>
                explanation_data.confidence = 85

\* every check breached: the score is above the cap
C5_Witness ==
    /\ Returned(explanation_data)
    /\ SumWeights(explanation_data.reasons) > 95
    /\ explanation_data.confidence = 95

\* C6: reasons is never empty; with no feature breaching its threshold the
\* verdict is LIKELY GENUINE and the only reason is the synthesized 'Overall'.
C6_ReasonsNeverEmpty ==
    Returned(explanation_data) =>
        /\ Len(explanation_data.reasons) >= 1
        /\ Breaches(features, thresholds) = {} =>
            /\ explanation_data.verdict = "LIKELY GENUINE"
            /\ explanation_data.reasons = <<OverallReason>>

C6_Witness ==
    /\ Returned(explanation_data)
    /\ Breaches(features, thresholds) = {}
    /\ Len(explanation_data.reasons) = 1

\* C7: the breach reasons appear in the fixed order Sentiment, Length,
\* Specificity, Self-Reference, Spam Language, Capitalization, Punctuation,
\* Redundancy, whichever subset breaches.
C7_ReasonOrder ==
    Returned(explanation_data) =>
        \A i, j \in BreachPositions(explanation_data.reasons) :
            i < j => FeatureRank(explanation_data.reasons[i].feature)
                        < FeatureRank(explanation_data.reasons[j].feature)

\* a result in which a Tier 1 and a Tier 2 check are reported but not all
C7_Witness ==
    /\ Returned(explanation_data)
    /\ Len(explanation_data.reasons) = 3
    /\ explanation_data.reasons[1].feature = "Length"
    /\ explanation_data.reasons[3].feature = "Redundancy"

(***************************************************************************)
(* Claims on engine instances (Spec)                                       *)
(***************************************************************************)
\* the thresholds dict engine e holds, in heap h
ThresholdsOf(h, es, e) == h[es[e].thresholds]

HasLengthReason(result) ==
    \E i \in 1..Len(result.reasons) : result.reasons[i].feature = "Length"

\* C8: every instance copies the defaults at construction: a write to one
\* instance's thresholds changes neither config.THRESHOLDS nor the thresholds
\* of any other instance, and an instance constructed afterwards starts from
\* the defaults.
C8_InstancesIsolated ==
    [][/\ heap'[ModuleRef] = heap[ModuleRef]
       /\ \A e \in 1..Len(engines) :
            (ret'.op = "setitem" /\ ret'.engine = e) =>
                \A j \in (1..Len(engines)) \ {e} :
                    ThresholdsOf(heap', engines', j) = ThresholdsOf(heap, engines, j)
       /\ Len(engines') > Len(engines) =>
            ThresholdsOf(heap', engines', Len(engines')) = THRESHOLDS]_vars

\* a second instance constructed after the first one's thresholds were written
C8_Witness ==
    /\ Len(engines) = 2
    /\ ret.op = "__init__"
    /\ ThresholdsOf(heap, engines, 1) # THRESHOLDS
    /\ ThresholdsOf(heap, engines, 2) = THRESHOLDS
    /\ heap[ModuleRef] = THRESHOLDS

\* C9: each analyze_review result is the scoring of the text against the
\* threshold values the instance holds at the moment of the call.
C9_ThresholdsRereadEachCall ==
    ret.op = "analyze_review" =>
        LET expected == generate_explanation(
                            extract_all_features(ret.review_text),
                            ThresholdsOf(heap, engines, ret.engine))
        IN  /\ ret.result.exc = expected.exc
            /\ Returned(expected) =>
                /\ ret.result.verdict = expected.verdict
                /\ ret.result.confidence = expected.confidence
                /\ ret.result.reasons = expected.reasons
                /\ ret.result.flag_count = expected.flag_count

\* a call made after a write, whose result differs from the one the default
\* thresholds give
C9_Witness ==
    /\ ret.op = "analyze_review"
    /\ ThresholdsOf(heap, engines, ret.engine) # THRESHOLDS
    /\ Returned(ret.result)
    /\ ret.result.reasons
        # generate_explanation(extract_all_features(ret.review_text), THRESHOLDS).reasons

\* C10 as stated: for a 5-word review the Length reason is absent at the
\* default WORD_COUNT_MIN of 15 and present once WORD_COUNT_MIN is 100.
C10_ShortReasonAbsentAtDefault ==
    (/\ ret.op = "analyze_review"
     /\ ret.review_text.words = 5
     /\ Returned(ret.result)) =>
        LET T == ThresholdsOf(heap, engines, ret.engine) IN
        /\ T.WORD_COUNT_MIN = 15 => ~HasLengthReason(ret.result)
        /\ T.WORD_COUNT_MIN = 100 => HasLengthReason(ret.result)

\* C10 amended: for a 5-word review the Length reason is present at the
\* default WORD_COUNT_MIN of 15 and still present once WORD_COUNT_MIN is set
\* to 100 on the same instance.
C10_ShortReasonAtBothSettings ==
    (/\ ret.op = "analyze_review"
     /\ ret.review_text.words = 5
     /\ Returned(ret.result)) =>
        LET T == ThresholdsOf(heap, engines, ret.engine) IN
        /\ T.WORD_COUNT_MIN = 15 => HasLengthReason(ret.result)
        /\ T.WORD_COUNT_MIN = 100 => HasLengthReason(ret.result)

\* a 5-word review analysed after WORD_COUNT_MIN was set to 100
C10_Witness ==
    /\ ret.op = "analyze_review"
    /\ ret.review_text.words = 5
    /\ ThresholdsOf(heap, engines, ret.engine).WORD_COUNT_MIN = 100
    /\ Returned(ret.result)
    /\ HasLengthReason(ret.result)

(***************************************************************************)
(* Verdict values and the additive score (SpecScore)                       *)
(***************************************************************************)
\* C16: the verdict of a returned result is one of the three strings
\* 'LIKELY FAKE', 'SUSPICIOUS', 'LIKELY GENUINE'.
C16_VerdictValues ==
    Returned(explanation_data) =>
        explanation_data.verdict \in {"LIKELY FAKE", "SUSPICIOUS", "LIKELY GENUINE"}

\* a returned result in the middle band
C16_Witness ==
    /\ Returned(explanation_data)
    /\ Cardinality(BreachPositions(explanation_data.reasons)) = 3
    /\ explanation_data.verdict = "SUSPICIOUS"

\* the sum the claim gives: one fixed weight per breached check, the short
\* weight taking the place of the long one when both comparisons hold
WeightsOfBreaches(f, T) ==
    (IF abs(f.sentiment) > T.SENTIMENT_EXTREME THEN 25 ELSE 0)
    + (IF f.word_count < T.WORD_COUNT_MIN THEN 15
       ELSE IF f.word_count >= T.WORD_COUNT_MAX THEN 10 ELSE 0)
    + (IF f.adj_noun_ratio > T.ADJ_NOUN_RATIO THEN 25 ELSE 0)
    + (IF f.first_person_ratio > T.FIRST_PERSON_RATIO THEN 20 ELSE 0)
    + (IF f.spam_keyword_count >= T.SPAM_KEYWORD_MIN THEN 15 ELSE 0)
    + (IF f.caps_ratio > T.CAPS_RATIO_MAX THEN 10 ELSE 0)
    + (IF f.excessive_punct_count >= T.EXCESSIVE_PUNCT_MIN THEN 10 ELSE 0)
    + (IF f.uniqueness_ratio < T.UNIQUENESS_RATIO_MIN THEN 15 ELSE 0)

\* C17: the score is additive over independent flags: each of the eight
\* features contributes at most one reason, exactly the breached features
\* are reported, and the accumulated confidence_score is the sum of the
\* fixed weights of the breached checks (25, 15 short or 10 long, 25, 20,
\* 15, 10, 10, 15), short and long never both counted.
C17_AdditiveScore ==
    (Returned(explanation_data) /\ Complete(thresholds)) =>
        LET acc == run_checks(features, thresholds)
            reasons == explanation_data.reasons
            breach == BreachPositions(reasons)
        IN  /\ acc.confidence_score = WeightsOfBreaches(features, thresholds)
            /\ SumWeights(reasons) = WeightsOfBreaches(features, thresholds)
            /\ \A i, j \in breach : reasons[i].feature = reasons[j].feature => i = j
            /\ {reasons[i].feature : i \in breach} = Breaches(features, thresholds)

\* a word count below WORD_COUNT_MIN and at or above WORD_COUNT_MAX at once,
\* scored together with an extreme sentiment
C17_Witness ==
    /\ Returned(explanation_data)
    /\ Complete(thresholds)
    /\ features.word_count < thresholds.WORD_COUNT_MIN
    /\ features.word_count >= thresholds.WORD_COUNT_MAX
    /\ abs(features.sentiment) > thresholds.SENTIMENT_EXTREME
    /\ SumWeights(explanation_data.reasons) = 40

\* C18: no single breached feature gives LIKELY FAKE: a LIKELY FAKE result
\* lists at least two breach reasons, and a result with one breached
\* feature is not LIKELY FAKE.
C18_FakeNeedsTwoBreaches ==
    Returned(explanation_data) =>
        /\ explanation_data.verdict = "LIKELY FAKE" =>
                Cardinality(BreachPositions(explanation_data.reasons)) >= 2
        /\ Cardinality(BreachPositions(explanation_data.reasons)) = 1 =>
                explanation_data.verdict # "LIKELY FAKE"

\* a LIKELY FAKE result resting on exactly two breaches
C18_Witness ==
    /\ Returned(explanation_data)
    /\ explanation_data.verdict = "LIKELY FAKE"
    /\ Cardinality(BreachPositions(explanation_data.reasons)) = 2

(***************************************************************************)
(* The hybrid analyzer and the backend interface (SpecApi)                 *)
(***************************************************************************)
\* what the two collaborators yield for the arguments of the recorded call
PrimaryOf(r) == predict_distilbert(r.model_output)
RulesOf(r) == analyze_review(heap, engines[1], r.review_text)

AnalyzeReturned == ret.op = "analyze" /\ Returned(ret.out)

\* C11: the agreement flag of a hybrid result is exactly the equality of
\* "the classifier predicts FAKE" and "the rule verdict is LIKELY FAKE or
\* SUSPICIOUS"; nothing else enters it.
C11_AgreementIsEquality ==
    AnalyzeReturned =>
        ret.out.agreement =
            ((PrimaryOf(ret).prediction = "FAKE")
                = (RulesOf(ret).verdict \in {"LIKELY FAKE", "SUSPICIOUS"}))

\* a hybrid result that agrees because the classifier says FAKE and the
\* rules say SUSPICIOUS
C11_Witness ==
    /\ AnalyzeReturned
    /\ ret.out.prediction = "FAKE"
    /\ ret.out.explanation.verdict = "SUSPICIOUS"
    /\ ret.out.agreement

\* C12: HybridAnalyzer.analyze hands on the classifier's prediction, label,
\* confidence and probabilities and the rule engine's verdict, confidence,
\* reasons, features and flag_count as they were returned to it.
C12_CarriedThrough ==
    AnalyzeReturned =>
        /\ ret.out.prediction = PrimaryOf(ret).prediction
        /\ ret.out.model_label = PrimaryOf(ret).label
        /\ ret.out.confidence = PrimaryOf(ret).confidence
        /\ ret.out.probabilities = PrimaryOf(ret).probabilities
        /\ ret.out.explanation.verdict = RulesOf(ret).verdict
        /\ ret.out.explanation.xai_confidence = RulesOf(ret).confidence
        /\ ret.out.explanation.reasons = RulesOf(ret).reasons
        /\ ret.out.explanation.features = RulesOf(ret).features
        /\ ret.out.explanation.flag_count = RulesOf(ret).flag_count

\* a hybrid result whose classifier confidence has five significant decimals
\* and whose rule engine reported at least two breaches
C12_Witness ==
    /\ AnalyzeReturned
    /\ ret.out.confidence % 10 # 0
    /\ Cardinality(BreachPositions(ret.out.explanation.reasons)) >= 2

\* C13: when the classifier call fails, analyze raises that failure, gives
\* no hybrid result and has not asked the rule engine; whenever the rule
\* engine is asked, the classifier was asked before it.
C13_PrimaryFirstAndRequired ==
    ret.op = "analyze" =>
        /\ ret.calls # <<>> /\ ret.calls[1] = "predict_distilbert"
        /\ ret.model_output.exc # NoExc =>
                /\ ret.out = ret.model_output
                /\ \A i \in 1..Len(ret.calls) : ret.calls[i] # "analyze_review"

\* analyze called when the classifier raises
C13_Witness ==
    /\ ret.op = "analyze"
    /\ ret.model_output.exc = "RuntimeError"
    /\ ret.out.exc = "RuntimeError"

InvalidInput(x) == x.type # "str" \/ x.size = 0 \/ x.blank

FailureShape(out) ==
    /\ out.success = FALSE
    /\ "error" \in DOMAIN out /\ out.error # <<>>
    /\ out.prediction = None
    /\ out.confidence = None
    /\ out.explanation = None

AnalysisRaises(r) ==
    ~Returned(HybridAnalyzer_analyze(heap, hybrid_analyzer, r.review_text.text,
                                     r.model_output).out)

\* C14: predict always returns a dict; on empty, whitespace-only or
\* non-string input it is the failure dict and the hybrid analyzer was not
\* called; when the hybrid analysis raises it is the failure dict too.
C14_PredictNeverRaises ==
    ret.op = "predict" =>
        /\ "success" \in DOMAIN ret.out
        /\ InvalidInput(ret.review_text) =>
                FailureShape(ret.out) /\ ret.calls = <<>>
        /\ ~InvalidInput(ret.review_text) /\ AnalysisRaises(ret) =>
                FailureShape(ret.out)

\* predict on a proper text while the rule engine raises KeyError
C14_Witness ==
    /\ ret.op = "predict"
    /\ ~InvalidInput(ret.review_text)
    /\ ret.model_output.exc = NoExc
    /\ AnalysisRaises(ret)
    /\ ret.out.success = FALSE
    /\ Contains(<<"Analysis failed: ", "'">>, ret.out.error)

IsBreachReason(r) == r.feature # "Overall"

\* '<feature>: <detail>' of reasons[i], after a '; ' unless it is the first
CompactPart(reasons, i) ==
    (IF i > 1 THEN <<"; ">> ELSE <<>>)
        \o <<reasons[i].feature, ": ">> \o reasons[i].detail

RECURSIVE CompactUpTo(_, _)
CompactUpTo(reasons, n) ==
    IF n = 0 THEN <<>>
    ELSE CompactUpTo(reasons, n - 1) \o CompactPart(reasons, n)

Block(i, reason) ==
    <<"\n", ToString(i), ". ", reason.feature, "\n", "   ">> \o reason.message
        \o <<"\n", "   ", ARROW, " ">> \o reason.detail

\* where needle starts in text
Positions(needle, text) ==
    {p \in 1..(Len(text) - Len(needle) + 1) :
        SubSeq(text, p, p + Len(needle) - 1) = needle}

\* C19: for a result of analyze_review, format_explanation_text returns a
\* non-empty string that contains 'VERDICT' followed by the verdict,
\* 'CONFIDENCE' followed by the confidence, and exactly one numbered block
\* of feature, message and detail per reason, in the order of reasons.
C19_FormattedText ==
    ret.op = "format_explanation" =>
        LET text == ret.text
            result == ret.analysis_result
            n == Len(result.reasons)
            where(i) == Positions(Block(i, result.reasons[i]), text)
        IN  /\ text # <<>>
            /\ Contains(<<"VERDICT", ": ", result.verdict>>, text)
            /\ Contains(<<"CONFIDENCE", ": ", ToString(result.confidence), "%">>, text)
            /\ \A i \in 1..n : Cardinality(where(i)) = 1
            /\ \A i \in 1..(n - 1) : \A p \in where(i) : \A q \in where(i + 1) : p < q
            /\ Cardinality(Positions(<<". ">>, text)) = n

\* the text of a result that lists two reasons
C19_Witness ==
    /\ ret.op = "format_explanation"
    /\ Len(ret.analysis_result.reasons) = 2
    /\ Contains(<<"2", ". ", "Length">>, ret.text)

(***************************************************************************)
(* Repeated calls (SpecRepeat)                                             *)
(***************************************************************************)
\* the call just made has the text of the kept call and the instance it was
\* made on holds thresholds equal to those of the kept call
SameArguments ==
    /\ prev.kept
    /\ ret.op = "analyze_review"
    /\ ret.review_text = prev.review_text
    /\ ThresholdsOf(heap, engines, ret.engine) = prev.thresholds

C21_ObviousFakeReview ==
    (ret.op = "analyze_review" /\ ret.text.tokens = FAKE_REVIEW) =>
        /\ Returned(ret.result)
        /\ ret.result.verdict \in {"LIKELY FAKE", "SUSPICIOUS"}
        /\ ret.result.confidence > 50
        /\ ret.result.flag_count >= 2

\* the review analysed with a neutral compound score and no adjective: only
\* the length, the capitals and the punctuation are left to flag it
C21_Witness ==
    /\ ret.op = "analyze_review"
    /\ ret.text.tokens = FAKE_REVIEW
    /\ ret.text.compound = 0
    /\ ret.text.adjectives = 0
    /\ ret.result.verdict = "SUSPICIOUS"
    /\ ret.result.confidence = 65

Tier1Keys == {"sentiment", "word_count", "adj_noun_ratio", "first_person_ratio"}
Tier2Keys == {"spam_keyword_count", "caps_ratio", "excessive_punct_count",
              "uniqueness_ratio"}
Tier3Keys == {"flesch_score", "dale_chall_score", "bigram_repetitiveness",
              "common_fake_ngrams", "tfidf_similarity"}

\* C22: for every non-empty text the dict extract_all_features returns has
\* all the Tier 1 keys, all the Tier 2 keys and all the Tier 3 keys.
C22_AllTierKeys ==
    (ret.op = "extract_all_features" /\ ret.text.tokens # <<>>) =>
        Tier1Keys \cup Tier2Keys \cup Tier3Keys \subseteq DOMAIN ret.result

\* what does hold: the Tier 1 and Tier 2 keys are there, no Tier 3 key is
C22_NoTier3Key ==
    ret.op = "extract_all_features" =>
        /\ Tier1Keys \cup Tier2Keys \subseteq DOMAIN ret.result
        /\ Tier3Keys \cap DOMAIN ret.result = {}

\* the reasons of a result whose feature is 'Length'
LengthReasons(reasons) ==
    {i \in 1..Len(reasons) : reasons[i].feature = "Length"}

\* C23: 'Great product!' has a word count of 2 and, at the default
\* thresholds, a short-length reason; the adjective/noun ratio is the
\* adjective count divided by max(noun count, 1), so that a text without
\* nouns has the adjective count as its ratio and no call fails on a
\* division.
C23_ShortReviewAndRatio ==
    /\ (ret.op \in {"extract_all_features", "analyze_review"}
            /\ ret.text.tokens = GREAT_PRODUCT) =>
        LET f == IF ret.op = "analyze_review" THEN ret.result.features
                 ELSE ret.result
        IN  /\ f.word_count = 2
            /\ ret.op = "analyze_review" =>
                \E i \in LengthReasons(ret.result.reasons) :
                    ret.result.reasons[i].message
                        = <<" ", "Suspiciously short review (", "2", " words)">>
    /\ ret.op = "extract_all_features" =>
        /\ ret.text.nouns = 0 =>
            ret.result.adj_noun_ratio = 100 * ret.text.adjectives
        /\ ret.text.nouns > 0 =>
            /\ ret.result.adj_noun_ratio * ret.text.nouns <= 100 * ret.text.adjectives
            /\ 100 * ret.text.adjectives < (ret.result.adj_noun_ratio + 1) * ret.text.nouns

\* the features of 'Great product!' tagged as one adjective and no noun
C23_Witness ==
    /\ ret.op = "extract_all_features"
    /\ ret.text.tokens = GREAT_PRODUCT
    /\ ret.text.adjectives = 1
    /\ ret.text.nouns = 0
    /\ ret.result.adj_noun_ratio = 100

\* the tokens of a text that are alphabetic, upper-case and longer than one
\* letter
AllCapsWords(tokens) ==
    {i \in 1..Len(tokens) :
        /\ TokenInfo[tokens[i]].isalpha
        /\ TokenInfo[tokens[i]].isupper
        /\ TokenInfo[tokens[i]].len > 1}

\* C30: for every text, the one without tokens and those without alphabetic
\* tokens included, caps_ratio, first_person_ratio and uniqueness_ratio lie
\* between 0 and 1 and are returned without a division error; one-letter
\* tokens and tokens that are not alphabetic are never counted as all-caps
\* words.
C30_RatiosWithinUnit ==
    ret.op = "extract_all_features" =>
        /\ ret.result.caps_ratio \in 0..100
        /\ ret.result.first_person_ratio \in 0..100
        /\ ret.result.uniqueness_ratio \in 0..100
        /\ ret.result.caps_count = Cardinality(AllCapsWords(ret.text.tokens))

\* a text of upper-case tokens none of which is an alphabetic word of more
\* than one letter
C30_Witness ==
    /\ ret.op = "extract_all_features"
    /\ ret.text.tokens = <<"I", "EVER!!!">>
    /\ ret.result.caps_count = 0
    /\ ret.result.caps_ratio = 0

(***************************************************************************)
(* The instance's configuration is written by its owner only (SpecRepeat)  *)
(***************************************************************************)
\* C24: the engine never updates its configuration: analyze_review,
\* extract_all_features and format_explanation leave every thresholds
\* mapping as it was, and a thresholds mapping changes only in a step in
\* which the owner writes to the thresholds of that instance.  The scoring
\* weights are literals of generate_explanation and no state at all.
C24_ConfigurationNotAdapted ==
    [][/\ engines' # engines => ret'.op = "__init__"
       /\ \A i \in 1..Len(heap) :
            heap'[i] # heap[i] =>
                /\ ret'.op = "setitem"
                /\ engines[ret'.engine].thresholds = i]_vars

\* an instance whose thresholds the owner has changed, right after an
\* extract_all_features call on it, with a result of an earlier
\* analyze_review call kept
C24_Witness ==
    /\ ret.op = "extract_all_features"
    /\ prev.kept
    /\ ThresholdsOf(heap, engines, ret.engine) # THRESHOLDS
    /\ heap[ModuleRef] = THRESHOLDS

\* C28: the heading of the rendered report is 'ANALYSIS:' exactly when no
\* feature was breached and 'SUSPICIOUS INDICATORS:' exactly when at least
\* one was.
C28_HeadingFollowsBreaches ==
    ret.op = "format_explanation" =>
        LET breached == BreachPositions(ret.analysis_result.reasons) # {}
        IN  /\ Contains(<<"\n", "ANALYSIS:">>, ret.text) <=> ~breached
            /\ Contains(<<"\n", "SUSPICIOUS INDICATORS:">>, ret.text) <=> breached

\* what does hold: the heading follows flag_count, which counts every reason
C28_HeadingFollowsFlagCount ==
    ret.op = "format_explanation" =>
        /\ ret.analysis_result.flag_count = Len(ret.analysis_result.reasons)
        /\ Contains(<<"\n", "SUSPICIOUS INDICATORS:">>, ret.text)
        /\ ~Contains(<<"\n", "ANALYSIS:">>, ret.text)

(***************************************************************************)
(* Length range, confidence of a flagged result, 'Overall' (SpecScore)     *)
(***************************************************************************)
\* C25: a word count within WORD_COUNT_MIN..WORD_COUNT_MAX, both ends
\* included, gets no Length reason: short only below WORD_COUNT_MIN, long
\* only above WORD_COUNT_MAX.
C25_NoLengthReasonInRange ==
    (Returned(explanation_data) /\ Complete(thresholds)) =>
        LET length == LengthReasons(explanation_data.reasons) IN
        /\ (/\ thresholds.WORD_COUNT_MIN <= features.word_count
            /\ features.word_count <= thresholds.WORD_COUNT_MAX) => length = {}
        /\ \A i \in length :
            \/ features.word_count < thresholds.WORD_COUNT_MIN
            \/ features.word_count > thresholds.WORD_COUNT_MAX

\* what does hold: the long reason is given from WORD_COUNT_MAX on
C25_LongFromMax ==
    (Returned(explanation_data) /\ Complete(thresholds)) =>
        (LengthReasons(explanation_data.reasons) # {}
            <=> \/ features.word_count < thresholds.WORD_COUNT_MIN
                \/ features.word_count >= thresholds.WORD_COUNT_MAX)

Flagged(result) == result.verdict \in {"LIKELY FAKE", "SUSPICIOUS"}

\* C26 as stated: whenever the verdict is LIKELY FAKE or SUSPICIOUS the
\* confidence is strictly greater than 50.
C26_ConfidenceAbove50 ==
    (Returned(explanation_data) /\ Flagged(explanation_data)) =>
        explanation_data.confidence > 50

\* C26: whenever the verdict is LIKELY FAKE or SUSPICIOUS the confidence is
\* at least 50; it is exactly 50 only for a LIKELY FAKE result whose score is
\* exactly 50, and at least 55 for every SUSPICIOUS result.
C26_ConfidenceAtLeast50 ==
    (Returned(explanation_data) /\ Flagged(explanation_data)) =>
        /\ explanation_data.confidence >= 50
        /\ explanation_data.confidence = 50 =>
            /\ explanation_data.verdict = "LIKELY FAKE"
            /\ SumWeights(explanation_data.reasons) = 50
        /\ explanation_data.verdict = "SUSPICIOUS" =>
            explanation_data.confidence >= 55

\* two breaches of weight 25 each: LIKELY FAKE with a confidence of 50
C26_Witness ==
    /\ Returned(explanation_data)
    /\ explanation_data.verdict = "LIKELY FAKE"
    /\ explanation_data.confidence = 50
    /\ {explanation_data.reasons[i].feature :
            i \in 1..Len(explanation_data.reasons)} = {"Sentiment", "Specificity"}

\* the positions of the 'Overall' reason
OverallPositions(reasons) ==
    {i \in 1..Len(reasons) : reasons[i].feature = "Overall"}

\* C29: the 'Overall' reason is in reasons if and only if the verdict is
\* LIKELY GENUINE; it occurs at most once, and then as the last element,
\* after the breach reasons, whose weights sum to less than 25.
C29_OverallOnlyForGenuine ==
    Returned(explanation_data) =>
        LET reasons == explanation_data.reasons
            overall == OverallPositions(reasons)
        IN  /\ overall # {} <=> explanation_data.verdict = "LIKELY GENUINE"
            /\ Cardinality(overall) <= 1
            /\ overall \subseteq {Len(reasons)}
            /\ overall # {} =>
                /\ reasons[Len(reasons)] = OverallReason
                /\ SumWeights(reasons) < 25

\* a LIKELY GENUINE result with two breach reasons before the 'Overall' one
C29_Witness ==
    /\ Returned(explanation_data)
    /\ explanation_data.verdict = "LIKELY GENUINE"
    /\ Len(explanation_data.reasons) = 3
    /\ explanation_data.reasons[3] = OverallReason
    /\ SumWeights(explanation_data.reasons) = 20

(***************************************************************************)
(* health_check (SpecApi)                                                  *)
(***************************************************************************)
\* C27: health_check reports 'healthy' with model_loaded True only when its
\* test prediction succeeded; when the analysis of the test review fails it
\* reports 'unhealthy' with model_loaded False.
C27_HealthFollowsTestPrediction ==
    ret.op = "health_check" =>
        /\ (ret.out.status = "healthy" /\ ret.out.model_loaded) =>
                ret.test_result.success
        /\ ~ret.test_result.success =>
                (ret.out.status = "unhealthy" /\ ~ret.out.model_loaded)

\* what does hold: predict turns every failure into a dict, so health_check
\* always reports 'healthy' and passes the success flag on
C27_AlwaysHealthy ==
    ret.op = "health_check" =>
        /\ ret.out.status = "healthy"
        /\ ret.out.model_loaded
        /\ ret.out.test_prediction = ret.test_result.success

====
